---- MODULE Spec2Model ----
(***************************************************************************)
(* Model of the two command-line scripts of the repository:                *)
(*   combine_codebase.js   - flattens a directory into numbered chunks     *)
(*   clean_node_module.js  - removes every node_modules directory          *)
(* Text is modelled at the character level: a string is a sequence of      *)
(* one-character strings, so that startsWith / endsWith / toLowerCase /    *)
(* split / sort are computed the way the scripts compute them.             *)
(***************************************************************************)
EXTENDS Integers, Sequences, FiniteSets, TLC

VARIABLES
    fs,                  \* the file system below the working directory: path string -> entry
    fs0,                 \* the file system as it was before the first invocation
    argv,                \* process.argv[2..4] of the snapshot tool
    MAX_LINES_PER_FILE,  \* module-level "let MAX_LINES_PER_FILE"
    pc,                  \* position of the running script
    filePaths,           \* sorted array of gathered paths
    fileIdx,             \* position of the for-of loop in filePaths
    currentFileIndex,    \* index of the chunk being written
    currentFileName,     \* its file name
    currentLineCount,    \* lines counted into it
    linesForThisFile,    \* the block built for the file of the current iteration
    streams,             \* write streams created by this run, in creation order
    runs,                \* number of completed snapshot runs
    lastArtifacts,       \* chunk files (name -> bytes) the previous run left
    stack,               \* removeNodeModules: call stack of (folderPath, remaining dirents)
    readdirLog           \* removeNodeModules: folders fs.readdir was called on

vars == <<fs, fs0, argv, MAX_LINES_PER_FILE, pc, filePaths, fileIdx, currentFileIndex,
          currentFileName, currentLineCount, linesForThisFile, streams, runs,
          lastArtifacts, stack, readdirLog>>

-----------------------------------------------------------------------------
(* Bounds of the model *)

\* numeric values 0..MaxLinesArg are tried as the third CLI argument
MaxLinesArg == 10
\* the snapshot tool is invoked at most MaxRuns times on the same directory
MaxRuns == 2

-----------------------------------------------------------------------------
(* Strings as sequences of characters *)

UpperCase == <<"A","B","C","D","E","F","G","H","I","J","K","L","M",
               "N","O","P","Q","R","S","T","U","V","W","X","Y","Z">>
LowerCase == <<"a","b","c","d","e","f","g","h","i","j","k","l","m",
               "n","o","p","q","r","s","t","u","v","w","x","y","z">>
Digits == <<"0","1","2","3","4","5","6","7","8","9">>

Range(s) == {s[i] : i \in 1..Len(s)}
IndexOf(s, c) == CHOOSE i \in 1..Len(s) : s[i] = c

\* UTF-16 code unit of a character, the key of the default Array.prototype.sort
charCode(c) ==
    IF c \in Range(UpperCase) THEN 64 + IndexOf(UpperCase, c)
    ELSE IF c \in Range(LowerCase) THEN 96 + IndexOf(LowerCase, c)
    ELSE IF c \in Range(Digits) THEN 47 + IndexOf(Digits, c)
    ELSE CASE c = "\n" -> 10
           [] c = " "  -> 32
           [] c = "-"  -> 45
           [] c = "."  -> 46
           [] c = "/"  -> 47
           [] c = ":"  -> 58
           [] c = "["  -> 91
           [] c = "]"  -> 93
           [] c = "_"  -> 95

toLowerCase(s) ==
    [i \in 1..Len(s) |->
        IF s[i] \in Range(UpperCase) THEN LowerCase[IndexOf(UpperCase, s[i])] ELSE s[i]]

startsWith(s, prefix) ==
    Len(s) >= Len(prefix) /\ SubSeq(s, 1, Len(prefix)) = prefix

endsWith(s, suffix) ==
    Len(s) >= Len(suffix) /\ SubSeq(s, Len(s) - Len(suffix) + 1, Len(s)) = suffix

\* a < b for strings, as the default sort comparator orders them
StringLess(a, b) ==
    \E k \in 1..(Len(a) + 1) :
        /\ k <= Len(b)
        /\ SubSeq(a, 1, k - 1) = SubSeq(b, 1, k - 1)
        /\ \/ k = Len(a) + 1
           \/ charCode(a[k]) < charCode(b[k])

\* String(n) for a non-negative integer
RECURSIVE NumToString(_)
NumToString(n) ==
    IF n < 10 THEN <<Digits[n + 1]>>
    ELSE NumToString(n \div 10) \o <<Digits[(n % 10) + 1]>>

RECURSIVE padStart(_, _, _)
padStart(s, targetLength, fill) ==
    IF Len(s) >= targetLength THEN s ELSE padStart(<<fill>> \o s, targetLength, fill)

\* ToNumber(string) as the relational operator > applies it: <<n>> or <<>> for NaN
RECURSIVE DigitsValue(_)
DigitsValue(s) ==
    IF s = <<>> THEN 0
    ELSE 10 * DigitsValue(SubSeq(s, 1, Len(s) - 1)) + (IndexOf(Digits, s[Len(s)]) - 1)

\* a JavaScript value is [type |-> "number", value |-> n] or
\* [type |-> "string", value |-> characters]
ToNumber(v) ==
    IF v.type = "number" THEN <<v.value>>
    ELSE IF \A i \in 1..Len(v.value) : v.value[i] \in Range(Digits) THEN <<DigitsValue(v.value)>>
    ELSE <<>>

\* content.split("\n")
RECURSIVE split(_)
split(content) ==
    IF \E i \in 1..Len(content) : content[i] = "\n"
    THEN LET i == CHOOSE j \in 1..Len(content) :
                      /\ content[j] = "\n"
                      /\ \A k \in 1..(j - 1) : content[k] # "\n"
         IN <<SubSeq(content, 1, i - 1)>> \o split(SubSeq(content, i + 1, Len(content)))
    ELSE <<content>>

RECURSIVE Flatten(_)
Flatten(ss) == IF ss = <<>> THEN <<>> ELSE Head(ss) \o Flatten(Tail(ss))

-----------------------------------------------------------------------------
(* Names used by the scripts *)

ignoreList ==
    <<<<".","g","i","t">>,
      <<"n","o","d","e","_","m","o","d","u","l","e","s">>,
      <<"p","u","b","l","i","c">>,
      <<"s","c","r","i","p","t","s">>,
      <<".","e","n","v">>,
      <<"y","a","r","n",".","l","o","c","k">>,
      <<"p","a","c","k","a","g","e","-","l","o","c","k",".","j","s","o","n">>,
      <<"a","s","s","e","t","s">>,
      <<"R","E","A","D","M","E",".","m","d">>,
      <<"C","O","D","E","_","O","F","_","C","O","N","D","U","C","T",".","m","d">>,
      <<"C","O","N","T","R","I","B","U","T","I","N","G",".","m","d">>,
      <<"L","I","C","E","N","S","E",".","m","d">>,
      <<"b","u","n",".","l","o","c","k","b">>>>

mediaExtensions ==
    <<<<".","p","n","g">>,
      <<".","j","p","g">>,
      <<".","j","p","e","g">>,
      <<".","g","i","f">>,
      <<".","m","p","3">>,
      <<".","m","p","4">>,
      <<".","m","o","v">>,
      <<".","a","v","i">>,
      <<".","m","p","e","g">>,
      <<".","w","e","b","m">>,
      <<".","w","e","b","p">>,
      <<".","s","v","g">>,
      <<".","i","c","o">>,
      <<".","p","d","f">>>>

DefaultMaxLines == 5000

-----------------------------------------------------------------------------
(* node:path on relative POSIX paths below the working directory *)

Dot == <<".">>

\* path.join(dir, name): join(".", "a") is "a"
pathJoin(dir, name) == IF dir = Dot THEN name ELSE dir \o <<"/">> \o name

\* path.relative(rootDir, filePath) for a filePath below rootDir
pathRelative(rootDir, filePath) ==
    IF rootDir = Dot THEN filePath
    ELSE SubSeq(filePath, Len(rootDir) + 2, Len(filePath))

\* whether path p lies strictly below directory dir
Below(dir, p) == dir = Dot \/ startsWith(p, dir \o <<"/">>)

\* the names fs.readdir(dir) returns, as a set
EntryNames(f, dir) ==
    {pathRelative(dir, p) : p \in {q \in DOMAIN f : Below(dir, q) /\ "/" \notin Range(pathRelative(dir, q))}}

-----------------------------------------------------------------------------
(* The filter of combine_codebase.js *)

isMediaFile(fileName) ==
    LET lowerName == toLowerCase(fileName)
    IN \E i \in 1..Len(mediaExtensions) : endsWith(lowerName, mediaExtensions[i])

\* isIgnored comparing the extensions without lower-casing the name
isIgnoredCaseSensitive(name, isDirectory, ignore) ==
    \/ startsWith(name, <<".">>)
    \/ ~isDirectory /\ endsWith(name, <<".","m","d">>)
    \/ ~isDirectory /\ \E i \in 1..Len(mediaExtensions) : endsWith(name, mediaExtensions[i])
    \/ name \in Range(ignore)

isIgnored(name, isDirectory, ignore) ==
    \/ startsWith(name, <<".">>)
    \/ ~isDirectory /\ endsWith(toLowerCase(name), <<".","m","d">>)
    \/ ~isDirectory /\ isMediaFile(name)
    \/ name \in Range(ignore)

-----------------------------------------------------------------------------
(* Directory listing.  fs.readdir returns the entries in an order the file *)
(* system chooses; a listing order is the code-unit order, optionally      *)
(* reversed and rotated.                                                    *)

Orders == [rev : BOOLEAN, rot : 0..2]

RECURSIVE SortNames(_)
SortNames(S) ==
    IF S = {} THEN <<>>
    ELSE LET m == CHOOSE x \in S : \A y \in S \ {x} : StringLess(x, y)
         IN <<m>> \o SortNames(S \ {m})

Reverse(s) == [i \in 1..Len(s) |-> s[Len(s) + 1 - i]]

Rotate(s, k) ==
    IF s = <<>> THEN s
    ELSE [i \in 1..Len(s) |-> s[((i - 1 + k) % Len(s)) + 1]]

\* fs.readdir(dir, { withFileTypes: true }): dirents with name and isDirectory()
readdir(f, dir, ord) ==
    LET sorted == SortNames(EntryNames(f, dir))
        listed == Rotate(IF ord.rev THEN Reverse(sorted) ELSE sorted, ord.rot)
    IN [i \in 1..Len(listed) |->
           [name |-> listed[i], isDirectory |-> f[pathJoin(dir, listed[i])].kind = "dir"]]

RECURSIVE gatherFilePaths(_, _, _, _)
RECURSIVE GatherEntries(_, _, _, _, _)

\* the for-of loop of gatherFilePaths over the dirents still to visit
GatherEntries(f, dir, entries, ignore, ord) ==
    IF entries = <<>> THEN <<>>
    ELSE LET entry == Head(entries)
             fullPath == pathJoin(dir, entry.name)
             here == IF isIgnored(entry.name, entry.isDirectory, ignore) THEN <<>>
                     ELSE IF entry.isDirectory THEN gatherFilePaths(f, fullPath, ignore, ord)
                     ELSE <<fullPath>>
         IN here \o GatherEntries(f, dir, Tail(entries), ignore, ord)

gatherFilePaths(f, dir, ignore, ord) ==
    GatherEntries(f, dir, readdir(f, dir, ord), ignore, ord)

\* the gathered paths left in traversal order
sortOmitted(paths) == paths

\* filePaths.sort(): code-unit order of the path strings
sort(paths) == SortSeq(paths, StringLess)

-----------------------------------------------------------------------------
(* Rendering one file *)

ErrorPrefix == <<"[","E","r","r","o","r"," ","r","e","a","d","i","n","g"," ","f","i","l","e",":"," ">>
ErrorSuffix == <<"]">>

\* err.message of a failed open
ErrorMessage(filePath) ==
    <<"E","A","C","C","E","S",":"," ","p","e","r","m","i","s","s","i","o","n"," ","d","e","n","i","e","d",
      ","," ","o","p","e","n"," ","'">> \o filePath \o <<"'">>

\* the outcomes of fs.readFileSync(filePath, "utf8"): [ok, value] with the text
\* or the error message.  A path for which this run already created a write
\* stream is being opened with O_TRUNC by that stream: the read sees the old
\* bytes or the truncated file.
readFileSync(f, strs, filePath) ==
    IF ~f[filePath].readable
    THEN {[ok |-> FALSE, value |-> ErrorMessage(filePath)]}
    ELSE IF \E i \in 1..Len(strs) : strs[i].name = filePath
    THEN {[ok |-> TRUE, value |-> f[filePath].content], [ok |-> TRUE, value |-> <<>>]}
    ELSE {[ok |-> TRUE, value |-> f[filePath].content]}

\* buildFileLines giving no lines for a file that cannot be read
buildFileLinesDropsUnreadable(filePath, rootDir, projectName, read) ==
    IF read.ok
    THEN <<projectName \o <<"/">> \o pathRelative(rootDir, filePath), <<>>>>
         \o split(read.value) \o <<<<>>>>
    ELSE <<>>

buildFileLines(filePath, rootDir, projectName, read) ==
    LET relativePath == pathRelative(rootDir, filePath)
        headerLine == projectName \o <<"/">> \o relativePath
        content == IF read.ok THEN read.value ELSE ErrorPrefix \o read.value \o ErrorSuffix
        fileContentLines == split(content)
    IN <<headerLine, <<>>>> \o fileContentLines \o <<<<>>>>

getOutputFileName(projectName, index) ==
    LET padded == padStart(NumToString(index), 3, "0")
    IN projectName \o <<"_","c","o","m","b","i","n","e","d","_">> \o padded \o <<".","t","x","t">>

-----------------------------------------------------------------------------
(* Write streams *)

\* fs.createWriteStream(name): a new stream, nothing written, end() not called
createWriteStream(name) == [name |-> name, data |-> <<>>, ended |-> 0]

\* closeCurrentFileStream that never calls end()
closeCurrentFileStreamOmitted(strs) == strs

\* closeCurrentFileStream(): end() on the stream currentOutputStream refers to
closeCurrentFileStream(strs) ==
    [strs EXCEPT ![Len(strs)].ended = @ + 1]

\* the lines joined by newlines, the last one left unterminated
RECURSIVE writeLinesJoined(_, _)
writeLinesJoined(data, lines) ==
    IF lines = <<>> THEN data
    ELSE IF Len(lines) = 1 THEN data \o Head(lines)
    ELSE writeLinesJoined(data \o Head(lines) \o <<"\n">>, Tail(lines))

\* the inner for-of loop: currentOutputStream.write(line + "\n") for each line
RECURSIVE writeLines(_, _)
writeLines(data, lines) ==
    IF lines = <<>> THEN data
    ELSE writeLines(data \o Head(lines) \o <<"\n">>, Tail(lines))

\* the limit test that forgets the lines already in the chunk
exceedsLimitBlockOnly(lineCount, fileLineCount, maxLines) ==
    LET m == IF maxLines.type = "number" THEN <<maxLines.value>>
             ELSE IF \A i \in 1..Len(maxLines.value) : maxLines.value[i] \in Range(Digits)
             THEN <<DigitsValue(maxLines.value)>>
             ELSE <<>>
    IN m # <<>> /\ fileLineCount > m[1]

\* currentLineCount + fileLineCount > MAX_LINES_PER_FILE, with the right-hand
\* side converted by ToNumber (a comparison with NaN is false)
exceedsLimit(lineCount, fileLineCount, maxLines) ==
    LET m == ToNumber(maxLines)
    IN m # <<>> /\ lineCount + fileLineCount > m[1]

\* the chunk files a set of streams leaves on disk once flushed
Artifacts(strs) ==
    [n \in {strs[i].name : i \in 1..Len(strs)} |->
        strs[CHOOSE i \in 1..Len(strs) : strs[i].name = n].data]

-----------------------------------------------------------------------------
(* The directories the snapshot tool is run on.  The working directory     *)
(* holds the project directory proj; a world is proj plus some of the      *)
(* optional parts below.                                                    *)

File(content) == [kind |-> "file", content |-> content, readable |-> TRUE]
Unreadable == [kind |-> "file", content |-> <<>>, readable |-> FALSE]
Dir == [kind |-> "dir", content |-> <<>>, readable |-> TRUE]

RECURSIVE P(_)
\* the path string of a sequence of names
P(names) == IF Len(names) = 1 THEN names[1] ELSE pathJoin(P(SubSeq(names, 1, Len(names) - 1)), names[Len(names)])

n_proj == <<"p","r","o","j">>
n_src == <<"s","r","c">>
n_index_js == <<"i","n","d","e","x",".","j","s">>
n_src_js == <<"s","r","c",".","j","s">>
n_README_md == <<"R","E","A","D","M","E",".","m","d">>
n_env == <<".","e","n","v">>
n_node_modules == <<"n","o","d","e","_","m","o","d","u","l","e","s">>
n_pkg == <<"p","k","g">>
n_logo_PNG == <<"l","o","g","o",".","P","N","G">>
n_NOTES_MD == <<"N","O","T","E","S",".","M","D">>
n_img_png == <<"i","m","g",".","p","n","g">>
n_x_js == <<"x",".","j","s">>
n_hid == <<".","h","i","d">>
n_k_js == <<"k",".","j","s">>
n_Lib_js == <<"L","i","b",".","j","s">>
n_demo == <<"d","e","m","o">>
n_lib == <<"l","i","b">>

BasePart == P(<<n_proj>>) :> Dir

\* the end-to-end example of the specification
ExamplePart ==
    (P(<<n_proj, n_src>>) :> Dir)
    @@ (P(<<n_proj, n_src, n_index_js>>) :> File(<<"h","i">>))
    @@ (P(<<n_proj, n_README_md>>) :> File(<<"r">>))
    @@ (P(<<n_proj, n_env>>) :> File(<<"e">>))
    @@ (P(<<n_proj, n_node_modules>>) :> Dir)
    @@ (P(<<n_proj, n_node_modules, n_pkg>>) :> Dir)
    @@ (P(<<n_proj, n_node_modules, n_pkg, n_index_js>>) :> File(<<"m">>))

\* media and markdown names in upper case, a directory with a media name
MediaPart ==
    (P(<<n_proj, n_logo_PNG>>) :> File(<<"p">>))
    @@ (P(<<n_proj, n_NOTES_MD>>) :> File(<<"n">>))
    @@ (P(<<n_proj, n_img_png>>) :> Dir)
    @@ (P(<<n_proj, n_img_png, n_x_js>>) :>
           File(<<"a","\n","b","\n","\n","c","\n","\n","d","\n","\n","e","\n">>))

\* a hidden directory, and a file whose path sorts before its sibling directory's files
HiddenPart ==
    (P(<<n_proj, n_hid>>) :> Dir)
    @@ (P(<<n_proj, n_hid, n_k_js>>) :> File(<<"k">>))
    @@ (P(<<n_proj, n_src_js>>) :> File(<<"a","\n","b">>))

\* a file that cannot be read, and an empty file
ErrorPart ==
    (P(<<n_proj, n_Lib_js>>) :> Unreadable)
    @@ (P(<<n_proj, n_k_js>>) :> File(<<>>))

\* a directory of four more source files
LibraryPart ==
    (P(<<n_proj, n_lib>>) :> Dir)
    @@ (P(<<n_proj, n_lib, n_x_js>>) :> File(<<"x">>))
    @@ (P(<<n_proj, n_lib, n_k_js>>) :> File(<<"k","\n">>))
    @@ (P(<<n_proj, n_lib, n_index_js>>) :> File(<<"i">>))
    @@ (P(<<n_proj, n_lib, n_src_js>>) :> File(<<"s">>))

Parts == {ExamplePart, MediaPart, HiddenPart, ErrorPart, LibraryPart}

RECURSIVE Merge(_)
Merge(S) == IF S = {} THEN BasePart
            ELSE LET x == CHOOSE y \in S : TRUE IN x @@ Merge(S \ {x})

Worlds == {Merge(S) : S \in SUBSET Parts}

\* the worlds scanned from the working directory itself, where the chunks of
\* one run are input of the next: proj with at most one of three parts
DefaultRootWorlds == {Merge({})} \cup {Merge({x}) : x \in {ExamplePart, MediaPart, ErrorPart}}

\* process.argv[2], [3] and [4]; an absent argument is the empty string
ArgStrings ==
    {<<>>, <<"a","b","c">>} \cup {NumToString(n) : n \in 0..MaxLinesArg}

Args == [projectName : {n_demo}, rootDir : {<<>>, n_proj}, maxLines : ArgStrings]

-----------------------------------------------------------------------------
(* combine_codebase.js *)

\* CLI main and the head of combineCodebaseWithLineLimit: gather, sort, open chunk 1
Start ==
    /\ pc \in {"idle", "done"}
    /\ runs < MaxRuns
    /\ \E ord \in Orders :
         LET projectName == argv.projectName
             rootDir == IF argv.rootDir = <<>> THEN Dot ELSE argv.rootDir
         IN /\ MAX_LINES_PER_FILE' =
                  (IF argv.maxLines = <<>>
                   THEN [type |-> "number", value |-> DefaultMaxLines]
                   ELSE [type |-> "string", value |-> argv.maxLines])
            /\ filePaths' = sort(gatherFilePaths(fs, rootDir, ignoreList, ord))
            /\ currentFileIndex' = 1
            /\ currentFileName' = getOutputFileName(projectName, 1)
            /\ streams' = <<createWriteStream(getOutputFileName(projectName, 1))>>
    /\ currentLineCount' = 0
    /\ fileIdx' = 1
    /\ lastArtifacts' = Artifacts(streams)
    /\ pc' = "loop"
    /\ UNCHANGED <<fs, fs0, argv, linesForThisFile, runs, stack, readdirLog>>

\* an iteration that leaves the header line in the chunk it has closed and
\* writes only the rest of the block to the chunk it opens
appendBlockSplit(strs, roll, newName, lines) ==
    IF roll
    THEN LET filled == [strs EXCEPT ![Len(strs)].data = @ \o Head(lines) \o <<"\n">>]
             opened == Append(filled, [name |-> newName, data |-> <<>>, ended |-> 0])
         IN [opened EXCEPT ![Len(opened)].data =
                Flatten([i \in 1..(Len(lines) - 1) |-> lines[i + 1] \o <<"\n">>])]
    ELSE [strs EXCEPT ![Len(strs)].data = @ \o Flatten([i \in 1..Len(lines) |-> lines[i] \o <<"\n">>])]

\* the streams once the block is written: to a chunk opened for it when the
\* limit test rolled over, to the current chunk otherwise
appendBlock(strs, roll, newName, lines) ==
    LET opened == IF roll THEN Append(strs, createWriteStream(newName)) ELSE strs
    IN [opened EXCEPT ![Len(opened)].data = writeLines(@, lines)]

\* an iteration whose block does not fit: the block is built, the limit test
\* succeeds and closeCurrentFileStream() is called
RollOver ==
    /\ pc = "loop"
    /\ fileIdx <= Len(filePaths)
    /\ \E read \in readFileSync(fs, streams, filePaths[fileIdx]) :
         LET rootDir == IF argv.rootDir = <<>> THEN Dot ELSE argv.rootDir
             lines == buildFileLines(filePaths[fileIdx], rootDir, argv.projectName, read)
         IN /\ exceedsLimit(currentLineCount, Len(lines), MAX_LINES_PER_FILE)
            /\ linesForThisFile' = lines
    /\ streams' = closeCurrentFileStream(streams)
    /\ pc' = "rolling"
    /\ UNCHANGED <<fs, fs0, argv, MAX_LINES_PER_FILE, filePaths, fileIdx, currentFileIndex,
                   currentFileName, currentLineCount, runs, lastArtifacts, stack, readdirLog>>

\* the rest of such an iteration: the next chunk is opened, the block is
\* written to it and counted
OpenAndWrite ==
    /\ pc = "rolling"
    /\ LET fileLineCount == Len(linesForThisFile)
           nextName == getOutputFileName(argv.projectName, currentFileIndex + 1)
       IN /\ currentFileIndex' = currentFileIndex + 1
          /\ currentFileName' = nextName
          /\ streams' = appendBlock(streams, TRUE, nextName, linesForThisFile)
          /\ currentLineCount' = 0 + fileLineCount
    /\ fileIdx' = fileIdx + 1
    /\ pc' = "loop"
    /\ UNCHANGED <<fs, fs0, argv, MAX_LINES_PER_FILE, filePaths, linesForThisFile, runs,
                   lastArtifacts, stack, readdirLog>>

\* an iteration whose block fits: it is built, written to the current chunk and counted
LoopBody ==
    /\ pc = "loop"
    /\ fileIdx <= Len(filePaths)
    /\ \E read \in readFileSync(fs, streams, filePaths[fileIdx]) :
         LET rootDir == IF argv.rootDir = <<>> THEN Dot ELSE argv.rootDir
             lines == buildFileLines(filePaths[fileIdx], rootDir, argv.projectName, read)
             fileLineCount == Len(lines)
         IN /\ ~exceedsLimit(currentLineCount, fileLineCount, MAX_LINES_PER_FILE)
            /\ linesForThisFile' = lines
            /\ streams' = appendBlock(streams, FALSE, currentFileName, lines)
            /\ currentLineCount' = currentLineCount + fileLineCount
    /\ fileIdx' = fileIdx + 1
    /\ UNCHANGED <<fs, fs0, argv, MAX_LINES_PER_FILE, pc, filePaths, currentFileIndex,
                   currentFileName, runs, lastArtifacts, stack, readdirLog>>

\* after the loop: closeCurrentFileStream() on the last chunk, "All done!"
Finish ==
    /\ pc = "loop"
    /\ fileIdx > Len(filePaths)
    /\ streams' = closeCurrentFileStream(streams)
    /\ pc' = "returned"
    /\ UNCHANGED <<fs, fs0, argv, MAX_LINES_PER_FILE, filePaths, fileIdx, currentFileIndex,
                   currentFileName, currentLineCount, linesForThisFile, runs, lastArtifacts, stack, readdirLog>>

\* the file system once the streams of a finished run are flushed
flush(f, strs) ==
    [p \in DOMAIN f \cup DOMAIN Artifacts(strs) |->
        IF p \in DOMAIN Artifacts(strs) THEN File(Artifacts(strs)[p]) ELSE f[p]]

\* the event loop drains: every stream opens its file with "w", writes its
\* queued data and closes; the process exits
Exit ==
    /\ pc = "returned"
    /\ fs' = flush(fs, streams)
    /\ runs' = runs + 1
    /\ pc' = "done"
    /\ UNCHANGED <<fs0, argv, MAX_LINES_PER_FILE, filePaths, fileIdx, currentFileIndex,
                   currentFileName, currentLineCount, linesForThisFile, streams, lastArtifacts, stack,
                   readdirLog>>

Init ==
    /\ argv \in Args
    /\ fs \in (IF argv.rootDir = <<>> THEN DefaultRootWorlds ELSE Worlds)
    /\ fs0 = fs
    /\ MAX_LINES_PER_FILE = [type |-> "number", value |-> DefaultMaxLines]
    /\ pc = "idle"
    /\ filePaths = <<>>
    /\ fileIdx = 1
    /\ currentFileIndex = 1
    /\ currentFileName = <<>>
    /\ currentLineCount = 0
    /\ linesForThisFile = <<>>
    /\ streams = <<>>
    /\ runs = 0
    /\ lastArtifacts = Artifacts(<<>>)
    /\ stack = <<>>
    /\ readdirLog = {}

Next == Start \/ RollOver \/ OpenAndWrite \/ LoopBody \/ Finish \/ Exit

Spec == Init /\ [][Next]_vars

-----------------------------------------------------------------------------
(* Vocabulary of the properties of the snapshot tool *)

\* the scan root of the invocation
RootDir == IF argv.rootDir = <<>> THEN Dot ELSE argv.rootDir

\* the line budget N, when the third argument is absent or a decimal number
HasBudget == \A i \in 1..Len(argv.maxLines) : argv.maxLines[i] \in Range(Digits)
Budget == IF argv.maxLines = <<>> THEN DefaultMaxLines ELSE DigitsValue(argv.maxLines)

\* a run is under way and nothing of it has reached the disk yet
Running == pc \in {"loop", "rolling", "returned"}

Contains(s, t) == \E i \in 0..(Len(s) - Len(t)) : SubSeq(s, i + 1, i + Len(t)) = t

CountNewlines(s) == Cardinality({i \in 1..Len(s) : s[i] = "\n"})

NL == <<"\n">>

\* the last component of a path
LastName(p) ==
    LET cut == {i \in 1..Len(p) : p[i] = "/"}
    IN IF cut = {} THEN p
       ELSE SubSeq(p, (CHOOSE i \in cut : \A j \in cut : j <= i) + 1, Len(p))

\* the filter as the specification words it
NamePasses(name, isFile) ==
    /\ name[1] # "."
    /\ \A i \in 1..Len(ignoreList) : ignoreList[i] # name
    /\ isFile =>
         LET low == toLowerCase(name)
         IN /\ ~endsWith(low, <<".","m","d">>)
            /\ \A i \in 1..Len(mediaExtensions) : ~endsWith(low, mediaExtensions[i])

\* a file below the root all of whose path components pass the filter
Qualifies(p) ==
    /\ p \in DOMAIN fs
    /\ fs[p].kind = "file"
    /\ Below(RootDir, p)
    /\ \A q \in DOMAIN fs :
         (Below(RootDir, q) /\ (q = p \/ Below(q, p))) => NamePasses(LastName(q), fs[q].kind = "file")

HeaderOf(p) == argv.projectName \o <<"/">> \o pathRelative(RootDir, p)

\* the bodies a block of file p can carry: the text of the file, or the
\* diagnostic of a failed read; a file the run itself is writing may read empty
Diagnostic(p) == ErrorPrefix \o ErrorMessage(p) \o ErrorSuffix
Bodies(p) ==
    IF ~fs[p].readable THEN {Diagnostic(p)}
    ELSE {fs[p].content}
         \cup (IF \E i \in 1..Len(streams) : streams[i].name = p THEN {<<>>} ELSE {})

\* header line, blank line, content lines, trailing blank line
BlockBytes(p, body) == HeaderOf(p) \o NL \o NL \o body \o NL \o NL

\* the positions j such that data is the blocks of paths[k..j-1], in order
RECURSIVE Ends(_, _, _)
Ends(data, paths, k) ==
    IF data = <<>> THEN {k}
    ELSE IF k > Len(paths) THEN {}
    ELSE UNION {Ends(SubSeq(data, Len(BlockBytes(paths[k], b)) + 1, Len(data)), paths, k + 1) :
                   b \in {c \in Bodies(paths[k]) : startsWith(data, BlockBytes(paths[k], c))}}

\* the chunks of this run concatenated in index order
AllData == Flatten([i \in 1..Len(streams) |-> streams[i].data])

-----------------------------------------------------------------------------
(* Properties of the snapshot tool *)

\* C1: with a numeric line budget N every chunk holds at most N lines, except
\* a chunk that consists of exactly one file block which alone has more than
\* N lines.
C1_ChunkWithinBudget ==
    (Running /\ HasBudget) =>
        \A i \in 1..Len(streams) :
            \/ CountNewlines(streams[i].data) <= Budget
            \/ \E k \in 1..Len(filePaths) : \E b \in Bodies(filePaths[k]) :
                  /\ streams[i].data = BlockBytes(filePaths[k], b)
                  /\ CountNewlines(BlockBytes(filePaths[k], b)) > Budget

\* C1 witness: a run with budget N has a chunk of several blocks within the
\* budget and a chunk made of one block that alone exceeds it
C1_Witness ==
    /\ pc = "returned" /\ HasBudget /\ Len(streams) >= 2
    /\ \E i \in 1..Len(streams) : CountNewlines(streams[i].data) > Budget
    /\ \E i \in 1..Len(streams) :
          /\ CountNewlines(streams[i].data) <= Budget
          /\ \E k \in 1..Len(filePaths) :
                Ends(streams[i].data, filePaths, k) \cap ((k + 2)..(Len(filePaths) + 1)) # {}

\* C2: every chunk consists of whole blocks of consecutive files: no block is
\* split across chunks, also when the block is longer than the budget.
C2_BlocksNeverSplit ==
    Running =>
        \A i \in 1..Len(streams) :
            \E k \in 1..(Len(filePaths) + 1) : Ends(streams[i].data, filePaths, k) # {}

\* C2 witness: a block longer than the budget was written and a later chunk exists
C2_Witness ==
    /\ pc = "returned" /\ HasBudget /\ Len(streams) >= 3
    /\ \E i \in 1..(Len(streams) - 1) : CountNewlines(streams[i].data) > Budget

\* C3 (as claimed): a second run with the same arguments leaves the same chunk
\* file names with the same bytes as the run before it.
C3_SecondRunIdentical ==
    (pc = "done" /\ runs >= 2) => Artifacts(streams) = lastArtifacts

\* C4 (as claimed): nothing below the scan root is created, overwritten or deleted.
C4_ScannedTreeUntouched ==
    \A p \in DOMAIN fs \cup DOMAIN fs0 :
        Below(RootDir, p) => (p \in DOMAIN fs /\ p \in DOMAIN fs0 /\ fs[p] = fs0[p])

\* the lines of the output of this run
OutputLines == Range(split(AllData))

\* C5: once every file is written, the output holds the header of a file
\* below the root exactly if the file's name and the names of all directories
\* between the root and the file pass the filter.
C5_FilterDecidesContent ==
    pc = "returned" =>
        \A p \in {q \in DOMAIN fs : fs[q].kind = "file" /\ Below(RootDir, q)} :
            (HeaderOf(p) \in OutputLines) <=> Qualifies(p)

\* C5 witness: a file below an ignore-listed directory, a file below a hidden
\* directory, an upper-case media file and a markdown file are all left out
\* while a file below a directory with a media name is included
C5_Witness ==
    /\ pc = "returned"
    /\ P(<<n_proj, n_node_modules, n_pkg, n_index_js>>) \in DOMAIN fs
    /\ P(<<n_proj, n_hid, n_k_js>>) \in DOMAIN fs
    /\ P(<<n_proj, n_logo_PNG>>) \in DOMAIN fs
    /\ P(<<n_proj, n_NOTES_MD>>) \in DOMAIN fs
    /\ HeaderOf(P(<<n_proj, n_img_png, n_x_js>>)) \in OutputLines
    /\ HeaderOf(P(<<n_proj, n_src, n_index_js>>)) \in OutputLines
    /\ HeaderOf(P(<<n_proj, n_hid, n_k_js>>)) \notin OutputLines

\* C6: a failed read does not abort the run: the run returns with every file
\* of the order processed, having written, for every unreadable file, its
\* header followed by the diagnostic body, and the block of every file after it.
C6_ReadFailureRecovered ==
    pc = "returned" =>
        /\ fileIdx = Len(filePaths) + 1
        /\ \A k \in 1..Len(filePaths) :
              ~fs[filePaths[k]].readable =>
                  /\ Contains(AllData, HeaderOf(filePaths[k]) \o NL \o NL
                                       \o ErrorPrefix \o ErrorMessage(filePaths[k]) \o ErrorSuffix
                                       \o NL \o NL)
                  /\ \A j \in (k + 1)..Len(filePaths) :
                        \E b \in Bodies(filePaths[j]) :
                            Contains(AllData, BlockBytes(filePaths[j], b))

\* C6 witness: a returned run whose order holds an unreadable file followed by another file
C6_Witness ==
    /\ pc = "returned"
    /\ \E k \in 1..(Len(filePaths) - 1) : ~fs[filePaths[k]].readable

\* C8: each iteration appends to the current chunk exactly header line, blank
\* line, the content, blank line, and adds to the line count the number of
\* lines it wrote.
C8_BlockForm ==
    [][(pc \in {"loop", "rolling"} /\ fileIdx' = fileIdx + 1) =>
          LET p == filePaths[fileIdx]
              fresh == Len(streams') > Len(streams)
              old == IF fresh THEN <<>> ELSE streams[Len(streams)].data
              new == streams'[Len(streams')].data
              added == SubSeq(new, Len(old) + 1, Len(new))
          IN /\ startsWith(new, old)
             /\ \E body \in Bodies(p) :
                   added = HeaderOf(p) \o NL \o NL \o body \o NL \o NL
             /\ currentLineCount' = (IF fresh THEN 0 ELSE currentLineCount) + CountNewlines(added)
             /\ currentLineCount' = CountNewlines(new)]_vars

\* C8 witness: the block of src/index.js with content "hi" scanned as demo is
\* the 4 lines header, blank, hi, blank
C8_Witness ==
    /\ pc = "returned"
    /\ Len(streams) = 1
    /\ currentLineCount = 4
    /\ streams[1].data =
         <<"d","e","m","o","/","s","r","c","/","i","n","d","e","x",".","j","s","\n",
           "\n", "h","i","\n", "\n">>

\* the chunk name of index i < 1000 with its three digits spelled out
ChunkName(i) ==
    argv.projectName \o <<"_","c","o","m","b","i","n","e","d","_">>
    \o <<Digits[((i \div 100) % 10) + 1], Digits[((i \div 10) % 10) + 1], Digits[(i % 10) + 1]>>
    \o <<".","t","x","t">>

\* C9: the chunks are created with indices 1, 2, 3, ... under their padded
\* names; at every moment at most one chunk is open, and it is the newest:
\* every older chunk has been closed exactly once before the next was opened;
\* after the run every chunk has been closed exactly once.
C9_ChunkLifecycle ==
    /\ \A i \in 1..Len(streams) : streams[i].name = ChunkName(i)
    /\ Cardinality({i \in 1..Len(streams) : streams[i].ended = 0}) <= 1
    /\ \A i \in 1..(Len(streams) - 1) : streams[i].ended = 1
    /\ pc = "loop" => (Len(streams) = currentFileIndex /\ streams[Len(streams)].ended = 0)
    /\ pc \in {"rolling", "returned", "done"} => \A i \in 1..Len(streams) : streams[i].ended = 1

\* C9 witness: a finished run that created at least ten chunks
C9_Witness ==
    /\ pc = "returned"
    /\ Len(streams) >= 10

\* the qualifying files in code-unit order of their paths
SortedQualifying == SortNames({p \in DOMAIN fs : Qualifies(p)})

\* C10: the chunks of a returned run, concatenated in index order, are the
\* blocks of the qualifying files in sorted order of their paths, one block each.
C10_ConcatenationIsSortedBlocks ==
    pc = "returned" =>
        (Len(SortedQualifying) + 1) \in Ends(AllData, SortedQualifying, 1)

\* C10 witness: a returned run of several chunks over a tree in which a file
\* sorts before the files of its sibling directory
C10_Witness ==
    /\ pc = "returned"
    /\ Len(streams) >= 2
    /\ P(<<n_proj, n_src_js>>) \in Range(filePaths)
    /\ P(<<n_proj, n_src, n_index_js>>) \in Range(filePaths)

-----------------------------------------------------------------------------
(* clean_node_module.js *)

n_A == <<"A">>
n_B == <<"B">>
n_L == <<"L">>
n_Z == <<"Z">>
n_x == <<"x">>
n_y == <<"y">>
n_f_txt == <<"f",".","t","x","t">>
n_node_modules_old == <<"n","o","d","e","_","m","o","d","u","l","e","s","_","o","l","d">>

LockedDir == [kind |-> "dir", content |-> <<>>, readable |-> FALSE]

\* the cleanup example of the specification: A/node_modules/x and A/B/node_modules/y
CleanBasePart ==
    (P(<<n_A>>) :> Dir)
    @@ (P(<<n_A, n_node_modules>>) :> Dir)
    @@ (P(<<n_A, n_node_modules, n_x>>) :> File(<<"x">>))
    @@ (P(<<n_A, n_B>>) :> Dir)
    @@ (P(<<n_A, n_B, n_node_modules>>) :> Dir)
    @@ (P(<<n_A, n_B, n_node_modules, n_y>>) :> File(<<"y">>))

\* a node_modules nested in a node_modules, and a similarly named directory
NestedPart ==
    (P(<<n_A, n_node_modules, n_pkg>>) :> Dir)
    @@ (P(<<n_A, n_node_modules, n_pkg, n_node_modules>>) :> Dir)
    @@ (P(<<n_A, n_node_modules_old>>) :> Dir)
    @@ (P(<<n_A, n_node_modules_old, n_x>>) :> File(<<"o">>))

\* plain files, one of them named node_modules
FilesPart ==
    (P(<<n_A, n_B, n_f_txt>>) :> File(<<"f">>))
    @@ (P(<<n_src>>) :> Dir)
    @@ (P(<<n_src, n_node_modules>>) :> File(<<"n">>))

\* a directory that cannot be listed, holding a node_modules, and a
\* node_modules that holds a directory that cannot be listed
LockedPart ==
    (P(<<n_A, n_L>>) :> LockedDir)
    @@ (P(<<n_A, n_L, n_node_modules>>) :> Dir)
    @@ (P(<<n_A, n_B, n_node_modules, n_L>>) :> LockedDir)
    @@ (P(<<n_A, n_B, n_node_modules, n_L, n_x>>) :> File(<<"l">>))

CleanParts == {NestedPart, FilesPart, LockedPart}

RECURSIVE CleanMerge(_)
CleanMerge(S) == IF S = {} THEN CleanBasePart
                 ELSE LET x == CHOOSE y \in S : TRUE IN x @@ CleanMerge(S \ {x})

CleanWorlds == {CleanMerge(S) : S \in SUBSET CleanParts}

\* process.argv[2] of the cleanup tool
TargetFolders == {Dot, P(<<n_A>>), P(<<n_A, n_node_modules>>), P(<<n_Z>>)}

\* whether fs.readdir(folderPath) succeeds
canReaddir(f, folderPath) ==
    \/ folderPath = Dot
    \/ folderPath \in DOMAIN f /\ f[folderPath].kind = "dir" /\ f[folderPath].readable

\* the name test matching every name that begins with node_modules
isNodeModulesPrefix(name) ==
    Len(name) >= 12 /\ SubSeq(name, 1, 12) = <<"n","o","d","e","_","m","o","d","u","l","e","s">>

\* dirent.name === 'node_modules'
isNodeModules(name) == name = <<"n","o","d","e","_","m","o","d","u","l","e","s">>

\* fs.rm(fullPath, { recursive: true, force: true })
rm(f, fullPath) ==
    [p \in {q \in DOMAIN f : q # fullPath /\ ~startsWith(q, fullPath \o <<"/">>)} |-> f[p]]

\* whether the removal can be refused: the tree holds a directory that cannot be listed
rmMayThrow(f, fullPath) ==
    \E q \in DOMAIN f : startsWith(q, fullPath \o <<"/">>) /\ ~f[q].readable

\* a removal that was refused part-way: what could be removed is gone, the
\* directories that cannot be listed, their contents and their ancestors remain
rmPartial(f, fullPath) ==
    LET kept == {q \in DOMAIN f :
                    \/ ~(q = fullPath \/ startsWith(q, fullPath \o <<"/">>))
                    \/ \E l \in DOMAIN f :
                          /\ startsWith(l, fullPath \o <<"/">>)
                          /\ ~f[l].readable
                          /\ (q = l \/ startsWith(q, l \o <<"/">>) \/ startsWith(l, q \o <<"/">>))}
    IN [p \in kept |-> f[p]]

\* the call stack after removeNodeModules(folderPath) has awaited fs.readdir:
\* a new frame with the dirents, or no frame when readdir threw and the call returned
enter(stk, f, folderPath, ord) ==
    IF canReaddir(f, folderPath)
    THEN Append(stk, [folderPath |-> folderPath, dirents |-> readdir(f, folderPath, ord)])
    ELSE stk

\* the frame on top with its first dirent consumed
advance(stk) == [stk EXCEPT ![Len(stk)].dirents = Tail(@)]

\* main: removeNodeModules(path.resolve(targetFolder)) is called
StartCleanup ==
    /\ pc = "idle"
    /\ \E ord \in Orders :
         /\ stack' = enter(stack, fs, argv.targetFolder, ord)
         /\ pc' = IF stack' = <<>> THEN "done" ELSE "walk"
    /\ readdirLog' = readdirLog \cup {argv.targetFolder}
    /\ UNCHANGED <<fs, fs0, argv, MAX_LINES_PER_FILE, filePaths, fileIdx, currentFileIndex,
                   currentFileName, currentLineCount, linesForThisFile, streams, runs, lastArtifacts>>

\* the dirent is a directory named node_modules: it is removed with its contents
RemoveTarget ==
    /\ pc = "walk" /\ stack # <<>> /\ stack[Len(stack)].dirents # <<>>
    /\ LET top == stack[Len(stack)]
           dirent == Head(top.dirents)
           fullPath == pathJoin(top.folderPath, dirent.name)
       IN /\ dirent.isDirectory
          /\ isNodeModules(dirent.name)
          /\ fs' = rm(fs, fullPath)
          /\ stack' = advance(stack)
    /\ UNCHANGED <<fs0, argv, MAX_LINES_PER_FILE, pc, filePaths, fileIdx, currentFileIndex,
                   currentFileName, currentLineCount, linesForThisFile, streams, runs, lastArtifacts, readdirLog>>

\* fs.rm rejects: the exception unwinds every call and main exits with code 1
RemoveThrows ==
    /\ pc = "walk" /\ stack # <<>> /\ stack[Len(stack)].dirents # <<>>
    /\ LET top == stack[Len(stack)]
           dirent == Head(top.dirents)
           fullPath == pathJoin(top.folderPath, dirent.name)
       IN /\ dirent.isDirectory
          /\ isNodeModules(dirent.name)
          /\ rmMayThrow(fs, fullPath)
          /\ fs' \in {fs, rmPartial(fs, fullPath)}
    /\ stack' = <<>>
    /\ pc' = "failed"
    /\ UNCHANGED <<fs0, argv, MAX_LINES_PER_FILE, filePaths, fileIdx, currentFileIndex,
                   currentFileName, currentLineCount, linesForThisFile, streams, runs, lastArtifacts, readdirLog>>

\* the dirent is another directory: removeNodeModules(fullPath) is called
Recurse ==
    /\ pc = "walk" /\ stack # <<>> /\ stack[Len(stack)].dirents # <<>>
    /\ LET top == stack[Len(stack)]
           dirent == Head(top.dirents)
           fullPath == pathJoin(top.folderPath, dirent.name)
       IN /\ dirent.isDirectory
          /\ ~isNodeModules(dirent.name)
          /\ \E ord \in Orders : stack' = enter(advance(stack), fs, fullPath, ord)
          /\ readdirLog' = readdirLog \cup {fullPath}
    /\ UNCHANGED <<fs, fs0, argv, MAX_LINES_PER_FILE, pc, filePaths, fileIdx, currentFileIndex,
                   currentFileName, currentLineCount, linesForThisFile, streams, runs, lastArtifacts>>

\* the dirent is not a directory: nothing is done with it
SkipEntry ==
    /\ pc = "walk" /\ stack # <<>> /\ stack[Len(stack)].dirents # <<>>
    /\ ~Head(stack[Len(stack)].dirents).isDirectory
    /\ stack' = advance(stack)
    /\ UNCHANGED <<fs, fs0, argv, MAX_LINES_PER_FILE, pc, filePaths, fileIdx, currentFileIndex,
                   currentFileName, currentLineCount, linesForThisFile, streams, runs, lastArtifacts, readdirLog>>

\* the for-of loop of a call is over: the call returns to its caller, or to main
Return ==
    /\ pc = "walk" /\ stack # <<>> /\ stack[Len(stack)].dirents = <<>>
    /\ stack' = SubSeq(stack, 1, Len(stack) - 1)
    /\ pc' = IF stack' = <<>> THEN "done" ELSE "walk"
    /\ UNCHANGED <<fs, fs0, argv, MAX_LINES_PER_FILE, filePaths, fileIdx, currentFileIndex,
                   currentFileName, currentLineCount, linesForThisFile, streams, runs, lastArtifacts, readdirLog>>

InitClean ==
    /\ fs \in CleanWorlds
    /\ fs0 = fs
    /\ argv \in [targetFolder : TargetFolders]
    /\ MAX_LINES_PER_FILE = [type |-> "number", value |-> DefaultMaxLines]
    /\ pc = "idle"
    /\ filePaths = <<>>
    /\ fileIdx = 1
    /\ currentFileIndex = 1
    /\ currentFileName = <<>>
    /\ currentLineCount = 0
    /\ linesForThisFile = <<>>
    /\ streams = <<>>
    /\ runs = 0
    /\ lastArtifacts = Artifacts(<<>>)
    /\ stack = <<>>
    /\ readdirLog = {}

NextClean == StartCleanup \/ RemoveTarget \/ RemoveThrows \/ Recurse \/ SkipEntry \/ Return

SpecClean == InitClean /\ [][NextClean]_vars

-----------------------------------------------------------------------------
(* Properties of the cleanup tool *)

\* p is the directory d or lies below it
AtOrBelow(d, p) == p = d \/ Below(d, p)

\* every directory on the way from the root down to p, p excluded, can be listed
ReachableFrom(root, p) ==
    \A q \in DOMAIN fs0 : (Below(root, q) /\ Below(q, p)) => fs0[q].readable

\* C7: after the walk completes no directory named node_modules is left below
\* the root wherever the walk can list its way to it; fs.readdir is never
\* called on a node_modules directory below the root or on anything inside
\* one; and every entry that is neither named node_modules nor inside a
\* node_modules is still there, unchanged.
C7_NodeModulesRemoved ==
    /\ pc = "done" =>
         \A p \in DOMAIN fs :
             ~(/\ fs[p].kind = "dir"
               /\ LastName(p) = n_node_modules
               /\ Below(argv.targetFolder, p)
               /\ canReaddir(fs0, argv.targetFolder)
               /\ ReachableFrom(argv.targetFolder, p))
    /\ \A d \in readdirLog :
         \A q \in DOMAIN fs0 :
             (Below(argv.targetFolder, q) /\ AtOrBelow(q, d)) => LastName(q) # n_node_modules
    /\ \A p \in DOMAIN fs0 :
         (\A q \in DOMAIN fs0 : AtOrBelow(q, p) => LastName(q) # n_node_modules)
             => (p \in DOMAIN fs /\ fs[p] = fs0[p])

\* C7 witness: the walk over A/node_modules/x and A/B/node_modules/y is
\* complete, both node_modules are gone and A/B is still there
C7_Witness ==
    /\ pc = "done"
    /\ P(<<n_A, n_node_modules, n_x>>) \in DOMAIN fs0
    /\ P(<<n_A, n_B, n_node_modules, n_y>>) \in DOMAIN fs0
    /\ P(<<n_A, n_node_modules>>) \notin DOMAIN fs
    /\ P(<<n_A, n_B, n_node_modules>>) \notin DOMAIN fs
    /\ P(<<n_A, n_B>>) \in DOMAIN fs
    /\ P(<<n_A, n_B>>) \in readdirLog

====
